---------------------------- MODULE Spec2Model ----------------------------
(***************************************************************************)
(* Model of the Diario Oficial automation:                                 *)
(*   src/script_diario_oficial.py  (single-document pipeline, "main")      *)
(*   src/scan_ultima_nomeacao.py   (multi-year scan)                       *)
(*                                                                         *)
(* Strings are sequences of one-character strings, compared by code point  *)
(* as Python compares str.  Optional values: None is <<>>, a present value *)
(* x is <<x>>.                                                             *)
(***************************************************************************)
EXTENDS Integers, Sequences, FiniteSets, TLC

VARIABLES
    hrefs, chosen, ordered,        \* Recency Resolver: input list, results
    raw, once, twice,              \* Link Normalizer: input, one pass, two passes
    doc, main_match, scan_match,   \* Clause Matcher: pages, results of both scripts
    config, stored, arquivo, cur,  \* Pipeline: flags, .state/last_seen.json,
                                   \* the downloaded file, the last run of main
    site, scan                     \* Scan: what the portal serves, the outcome

recencyVars == <<hrefs, chosen, ordered>>
normVars == <<raw, once, twice>>
clauseVars == <<doc, main_match, scan_match>>
pipelineVars == <<config, stored, arquivo, cur>>
scanVars == <<site, scan>>
vars == <<recencyVars, normVars, clauseVars, pipelineVars, scanVars>>

None == <<>>
Some(x) == <<x>>
Val(o) == o[1]

---------------------------------------------------------------------------
(* Characters and strings                                                  *)

DigitChars == {"0", "1", "2", "3", "4", "5", "6", "7", "8", "9"}

\* Code points of the characters the model's strings use.
Ord(c) ==
    CASE c = "-" -> 45
      [] c = "." -> 46 [] c = "/" -> 47 [] c = "0" -> 48 [] c = "1" -> 49
      [] c = "2" -> 50 [] c = "3" -> 51 [] c = "4" -> 52 [] c = "5" -> 53
      [] c = "6" -> 54 [] c = "7" -> 55 [] c = "8" -> 56 [] c = "9" -> 57
      [] c = ":" -> 58 [] c = "N" -> 78 [] c = "a" -> 97 [] c = "b" -> 98
      [] c = "c" -> 99 [] c = "d" -> 100 [] c = "e" -> 101 [] c = "f" -> 102
      [] c = "g" -> 103 [] c = "h" -> 104 [] c = "i" -> 105 [] c = "j" -> 106
      [] c = "k" -> 107 [] c = "l" -> 108 [] c = "m" -> 109 [] c = "n" -> 110
      [] c = "o" -> 111 [] c = "p" -> 112 [] c = "q" -> 113 [] c = "r" -> 114
      [] c = "s" -> 115 [] c = "t" -> 116 [] c = "u" -> 117 [] c = "v" -> 118
      [] c = "w" -> 119 [] c = "x" -> 120 [] c = "y" -> 121 [] c = "z" -> 122

DigitVal(c) == Ord(c) - 48

\* int(digits)
RECURSIVE ToInt(_)
ToInt(ds) ==
    IF ds = <<>> THEN 0
    ELSE 10 * ToInt(SubSeq(ds, 1, Len(ds) - 1)) + DigitVal(ds[Len(ds)])

\* Python's tuple < tuple over integers.
RECURSIVE TupleLess(_, _)
TupleLess(a, b) ==
    IF b = <<>> THEN FALSE
    ELSE IF a = <<>> THEN TRUE
    ELSE IF a[1] # b[1] THEN a[1] < b[1]
    ELSE TupleLess(Tail(a), Tail(b))

\* The code points of a string: Python orders str as the tuples of these.
Codes(s) == [k \in 1..Len(s) |-> Ord(s[k])]

Min(S) == CHOOSE x \in S : \A y \in S : x <= y

---------------------------------------------------------------------------
(* Link metadata: parse_timestamp_from_href / _from_url, parse_edicao      *)

\* (\d{4})-(\d{2})-(\d{2})-(\d{2})-(\d{2})-(\d{2})\.pdf, "#" standing for \d
TsPattern ==
    <<"#", "#", "#", "#", "-", "#", "#", "-", "#", "#", "-", "#", "#", "-",
      "#", "#", "-", "#", "#", ".", "p", "d", "f">>

TsMatchAt(s, i) ==
    /\ i + Len(TsPattern) - 1 <= Len(s)
    /\ \A k \in 1..Len(TsPattern) :
          IF TsPattern[k] = "#" THEN s[i + k - 1] \in DigitChars
          ELSE s[i + k - 1] = TsPattern[k]

\* re.search: the leftmost match; the six groups as integers, which is the
\* datetime(y, mo, d, hh, mm, ss) the code builds (datetimes compare as
\* these tuples).  Links carry valid calendar dates.
parse_timestamp_from_href(h) ==
    LET at == {i \in 1..Len(h) : TsMatchAt(h, i)}
    IN  IF at = {} THEN None
        ELSE LET i == Min(at)
             IN  Some(<<ToInt(SubSeq(h, i, i + 3)),
                        ToInt(SubSeq(h, i + 5, i + 6)),
                        ToInt(SubSeq(h, i + 8, i + 9)),
                        ToInt(SubSeq(h, i + 11, i + 12)),
                        ToInt(SubSeq(h, i + 14, i + 15)),
                        ToInt(SubSeq(h, i + 17, i + 18))>>)

parse_timestamp_from_url(u) == parse_timestamp_from_href(u)

\* The end of the maximal run of digits starting at position i (i - 1 when
\* s[i] is no digit).
RECURSIVE DigitsEnd(_, _)
DigitsEnd(s, i) ==
    IF i <= Len(s) /\ s[i] \in DigitChars THEN DigitsEnd(s, i + 1) ELSE i - 1

\* -n-(\d+)- with IGNORECASE, at position i
EdMatchAt(s, i) ==
    /\ i + 2 <= Len(s)
    /\ s[i] = "-" /\ s[i + 1] \in {"n", "N"} /\ s[i + 2] = "-"
    /\ LET e == DigitsEnd(s, i + 3)
       IN  e >= i + 3 /\ e + 1 <= Len(s) /\ s[e + 1] = "-"

parse_edicao_from_url(u) ==
    LET at == {i \in 1..Len(u) : EdMatchAt(u, i)}
    IN  IF at = {} THEN None
        ELSE LET i == Min(at)
             IN  Some(ToInt(SubSeq(u, i + 3, DigitsEnd(u, i + 3))))

\* datetime.min
DatetimeMin == <<1, 1, 1, 0, 0, 0>>

---------------------------------------------------------------------------
(* Recency Resolver: escolher_link_mais_recente and sort_pdfs_desc         *)

\* sorted(s, key=...): ascending and stable; keys[i] is the key of s[i], a
\* tuple of integers.
SortedBy(s, keys) ==
    LET n == Len(s)
        rank(i) ==
            Cardinality({j \in 1..n : TupleLess(keys[j], keys[i])})
            + Cardinality({j \in 1..(i - 1) : keys[j] = keys[i]})
    IN  [k \in 1..n |-> s[CHOOSE i \in 1..n : rank(i) = k - 1]]

Reversed(s) == [k \in 1..Len(s) |-> s[Len(s) + 1 - k]]

\* False and True as Python orders them: False < True.
BoolKey(b) == IF b THEN 1 ELSE 0

\* key=lambda x: (x[0] is None, x[0] or datetime.min, x[1]) over the pairs
\* (timestamp, href) of candidatos.
CandidatoKey(c) ==
    <<BoolKey(c[1] = None)>>
    \o (IF c[1] = None THEN DatetimeMin ELSE Val(c[1]))
    \o Codes(c[2])

\* The fallback of escolher_link_mais_recente when no href has a timestamp.
FallbackLink(hs) == hs[Len(hs)]

escolher_link_mais_recente(hs) ==
    LET candidatos == [k \in 1..Len(hs) |->
                          <<parse_timestamp_from_href(hs[k]), hs[k]>>]
        srt == SortedBy(candidatos,
                        [k \in 1..Len(hs) |-> CandidatoKey(candidatos[k])])
        com_ts == SelectSeq(srt, LAMBDA c : c[1] # None)
    IN  IF com_ts # <<>> THEN com_ts[Len(com_ts)][2]
        ELSE FallbackLink(hs)

\* key(u) of sort_pdfs_desc: (ts is None, ts or datetime.min, ed is None,
\* ed or -1, u)
PdfKey(u) ==
    LET ts == parse_timestamp_from_url(u)
        ed == parse_edicao_from_url(u)
    IN  <<BoolKey(ts = None)>>
        \o (IF ts = None THEN DatetimeMin ELSE Val(ts))
        \o <<BoolKey(ed = None),
             IF ed = None \/ Val(ed) = 0 THEN -1 ELSE Val(ed)>>
        \o Codes(u)

sort_pdfs_desc(urls) ==
    Reversed(SortedBy(urls, [k \in 1..Len(urls) |-> PdfKey(urls[k])]))

---------------------------------------------------------------------------
(* Candidate links the model draws from                                    *)

\* Zero-padded decimal of n, w characters wide.
RECURSIVE Dec(_, _)
Dec(n, w) ==
    IF w = 0 THEN <<>>
    ELSE Dec(n \div 10, w - 1) \o <<CHOOSE c \in DigitChars : DigitVal(c) = n % 10>>

Stamp(t) ==
    Dec(t[1], 4) \o <<"-">> \o Dec(t[2], 2) \o <<"-">> \o Dec(t[3], 2)
    \o <<"-">> \o Dec(t[4], 2) \o <<"-">> \o Dec(t[5], 2) \o <<"-">>
    \o Dec(t[6], 2)

\* <stem>[-n-<edition>]-<timestamp or x>.pdf
Link(stem, ed, ts) ==
    stem
    \o (IF ed = None THEN <<>> ELSE <<"-", "n", "-">> \o Val(ed))
    \o <<"-">>
    \o (IF ts = None THEN <<"x">> ELSE Stamp(Val(ts)))
    \o <<".", "p", "d", "f">>

Stems == {<<"/", "d">>, <<"/", "e">>}
Editions == {None, Some(<<"9">>), Some(<<"1", "0">>)}
Stamps == {None, Some(<<2024, 1, 1, 0, 0, 0>>), Some(<<2024, 6, 1, 0, 0, 0>>)}

Links == {Link(s, e, t) : s \in Stems, e \in Editions, t \in Stamps}

\* The longest list of links a page yields in the model.
MaxLinks == 2

LinkLists == UNION {[1..n -> Links] : n \in 1..MaxLinks}

---------------------------------------------------------------------------
(* Specification of the Recency Resolver on its own                        *)

RecencyIdle == hrefs = <<>> /\ chosen = None /\ ordered = None
NormIdle == raw = <<>> /\ once = None /\ twice = None
ClauseIdle == doc = <<>> /\ main_match = None /\ scan_match = None
PipelineIdle == config = None /\ stored = None /\ arquivo = None /\ cur = None
ScanIdle == site = None /\ scan = None

InitRecency ==
    /\ hrefs \in LinkLists
    /\ chosen = None
    /\ ordered = None
    /\ NormIdle /\ ClauseIdle /\ PipelineIdle /\ ScanIdle

Resolve ==
    /\ chosen = None
    /\ chosen' = Some(escolher_link_mais_recente(hrefs))
    /\ ordered' = Some(sort_pdfs_desc(hrefs))
    /\ UNCHANGED <<hrefs, normVars, clauseVars, pipelineVars, scanVars>>

NextRecency == Resolve

SpecRecency == InitRecency /\ [][NextRecency]_vars

Range(s) == {s[k] : k \in 1..Len(s)}

\* The order of the Recency Resolver as specified, most significant key
\* first: has-timestamp over no-timestamp, later timestamp, has-edition over
\* no-edition, higher edition number, lexicographically greater link.
RecencyRank(u) ==
    LET ts == parse_timestamp_from_url(u)
        ed == parse_edicao_from_url(u)
    IN  <<BoolKey(ts # None)>>
        \o (IF ts = None THEN DatetimeMin ELSE Val(ts))
        \o <<BoolKey(ed # None), IF ed = None THEN -1 ELSE Val(ed)>>
        \o Codes(u)

MostRecent(S) ==
    CHOOSE u \in S : \A v \in S : v = u \/ TupleLess(RecencyRank(v), RecencyRank(u))

\* C5: the link judged most recent, by escolher_link_mais_recente and as the
\* first element of sort_pdfs_desc, is the maximum of the candidates under the
\* specified order (timestamp presence, timestamp, edition presence, edition,
\* link).
C5_SelectionIsMaximum ==
    chosen # None =>
        /\ Val(chosen) = MostRecent(Range(hrefs))
        /\ Val(ordered)[1] = MostRecent(Range(hrefs))

\* C6: escolher_link_mais_recente returns the same link for every
\* permutation of the candidate list.
C6_OrderIndependent ==
    chosen # None =>
        \A f \in Permutations(1..Len(hrefs)) :
            escolher_link_mais_recente([k \in 1..Len(hrefs) |-> hrefs[f[k]]])
                = Val(chosen)

---------------------------------------------------------------------------
(* Link Normalizer: normalize_html_for_pdf_search                          *)

Backslash == "\\"

\* str.replace(old, new): every occurrence, leftmost first, not overlapping.
RECURSIVE Replace(_, _, _)
Replace(s, old, new) ==
    IF Len(s) < Len(old) THEN s
    ELSE IF SubSeq(s, 1, Len(old)) = old
         THEN new \o Replace(SubSeq(s, Len(old) + 1, Len(s)), old, new)
         ELSE <<s[1]>> \o Replace(Tail(s), old, new)

EscUpper == <<Backslash, "u", "0", "0", "2", "F">>
EscLower == <<Backslash, "u", "0", "0", "2", "f">>
EscSlash == <<Backslash, "/">>

\* The last replacement of normalize_html_for_pdf_search: one pass over \/.
UnescapeSlash(s) == Replace(s, EscSlash, <<"/">>)

normalize_html_for_pdf_search(r) ==
    UnescapeSlash(Replace(Replace(r, EscUpper, <<"/">>), EscLower, <<"/">>))

\* Raw markup: up to MaxPieces pieces, each a backslash, a slash, the tail of
\* a unicode escape or another character.
Pieces ==
    {<<Backslash>>, <<"/">>, <<"u", "0", "0", "2", "F">>,
     <<"u", "0", "0", "2", "f">>, <<"a">>}

MaxPieces == 3

RECURSIVE Flatten(_)
Flatten(ps) == IF ps = <<>> THEN <<>> ELSE ps[1] \o Flatten(Tail(ps))

RawInputs == {Flatten(ps) : ps \in UNION {[1..n -> Pieces] : n \in 0..MaxPieces}}

InitNorm ==
    /\ raw \in RawInputs
    /\ once = None
    /\ twice = None
    /\ RecencyIdle /\ ClauseIdle /\ PipelineIdle /\ ScanIdle

NormalizeOnce ==
    /\ once = None
    /\ once' = Some(normalize_html_for_pdf_search(raw))
    /\ UNCHANGED <<raw, twice, recencyVars, clauseVars, pipelineVars, scanVars>>

NormalizeAgain ==
    /\ once # None
    /\ twice = None
    /\ twice' = Some(normalize_html_for_pdf_search(Val(once)))
    /\ UNCHANGED <<raw, once, recencyVars, clauseVars, pipelineVars, scanVars>>

NextNorm == NormalizeOnce \/ NormalizeAgain

SpecNorm == InitNorm /\ [][NextNorm]_vars

\* C7: the Link Normalizer is idempotent: normalising its own output changes
\* nothing.
C7_NormalizeIdempotent == twice # None => Val(twice) = Val(once)

---------------------------------------------------------------------------
(* Clause Matcher: extrair_entre / extract_between, contem_concurso_publico *)
(* and pdf_has_relevant_nomeacao.  A text is a sequence of words; the      *)
(* markers and keywords are single words, so that a substring search is a  *)
(* search for a run of words.  The words are written without diacritics.   *)

Words == {"Nomear", "NOMEAR", "Procurador-Geral de Justica", "IV",
          "concurso publico", "outro"}

\* str.lower() of a word
LowerWord(w) ==
    CASE w = "Nomear" -> "nomear"
      [] w = "NOMEAR" -> "nomear"
      [] w = "Procurador-Geral de Justica" -> "procurador-geral de justica"
      [] w = "IV" -> "iv"
      [] OTHER -> w

Lower(t) == [k \in 1..Len(t) |-> LowerWord(t[k])]

\* needle in haystack, both sequences of words
Contains(t, needle) ==
    \E i \in 1..(Len(t) - Len(needle) + 1) :
        SubSeq(t, i, i + Len(needle) - 1) = needle

\* re.escape(inicio) + ".*?" + re.escape(fim) with IGNORECASE | DOTALL,
\* searched: the leftmost inicio that some fim follows, up to the nearest fim.
extrair_entre(texto, inicio, fim) ==
    LET low == Lower(texto)
        starts == {i \in 1..Len(low) :
                      /\ low[i] = LowerWord(inicio)
                      /\ \E j \in (i + 1)..Len(low) : low[j] = LowerWord(fim)}
    IN  IF starts = {} THEN None
        ELSE LET i == Min(starts)
                 j == Min({k \in (i + 1)..Len(low) : low[k] = LowerWord(fim)})
             IN  Some(SubSeq(texto, i, j))

extract_between(text, start, end) == extrair_entre(text, start, end)

\* re.search(r"concurso publico", texto, flags=re.IGNORECASE) is not None
contem_concurso_publico(texto) == Contains(Lower(texto), <<"concurso publico">>)

\* "\n".join(partes) of ler_texto_pdf
RECURSIVE JoinPages(_)
JoinPages(pages) ==
    IF pages = <<>> THEN <<>>
    ELSE IF Len(pages) = 1 THEN pages[1]
    ELSE pages[1] \o <<"\n">> \o JoinPages(Tail(pages))

\* What main derives from the document text (lines 234-239).
MainMatch(texto_pdf) ==
    LET trecho == extrair_entre(texto_pdf, "Nomear", "Procurador-Geral de Justica")
        achou_concurso == contem_concurso_publico(texto_pdf)
    IN  [trecho |-> trecho,
         achou_concurso |-> achou_concurso,
         tem_match |-> (trecho # None) \/ achou_concurso]

Alvo == <<"iv", "concurso publico">>

\* The test of pdf_has_relevant_nomeacao on one page.
PageIsRelevant(text) ==
    LET low == Lower(text)
    IN  Contains(low, <<"nomear">>) /\ Contains(low, Alvo)

\* pdf_has_relevant_nomeacao: the first relevant page and its snippet (the
\* names are a heuristic over the snippet and are left out), or None.
pdf_has_relevant_nomeacao(pages) ==
    LET hits == {k \in 1..Len(pages) : PageIsRelevant(pages[k])}
    IN  IF hits = {} THEN None
        ELSE LET k == Min(hits)
                 span == extract_between(pages[k], "Nomear",
                                         "Procurador-Geral de Justica")
             IN  Some([page |-> k,
                       snippet |-> IF span = None THEN pages[k] ELSE Val(span)])

MaxPageLen == 3
MaxPages == 2

PageTexts == UNION {[1..n -> Words] : n \in 0..MaxPageLen}
Documents == UNION {[1..n -> PageTexts] : n \in 1..MaxPages}

InitClause ==
    /\ doc \in Documents
    /\ main_match = None
    /\ scan_match = None
    /\ RecencyIdle /\ NormIdle /\ PipelineIdle /\ ScanIdle

\* The single-document pipeline's matching of the document text.
MatchInMain ==
    /\ main_match = None
    /\ main_match' = Some(MainMatch(JoinPages(doc)))
    /\ UNCHANGED <<doc, scan_match, recencyVars, normVars, pipelineVars, scanVars>>

\* The scan's test of the same document.
MatchInScan ==
    /\ scan_match = None
    /\ scan_match' = Some(pdf_has_relevant_nomeacao(doc))
    /\ UNCHANGED <<doc, main_match, recencyVars, normVars, pipelineVars, scanVars>>

NextClause == MatchInMain \/ MatchInScan

SpecClause == InitClause /\ [][NextClause]_vars

\* The keyword occurs inside the clause span of the text.
KeywordInSpan(texto, keyword) ==
    LET span == extrair_entre(texto, "Nomear", "Procurador-Geral de Justica")
    IN  span # None /\ Contains(Lower(Val(span)), keyword)

\* C1: the keyword test is scoped to the matched clause: main reports the
\* keyword exactly when it occurs inside the Nomear ... Procurador-Geral de
\* Justiça span, and the scan reports a document only when the keyword
\* occurs inside such a span of a page.
C1_KeywordScopedToClause ==
    /\ main_match # None =>
          Val(main_match).achou_concurso
              = KeywordInSpan(JoinPages(doc), <<"concurso publico">>)
    /\ scan_match # None =>
          (Val(scan_match) # None
              => \E k \in 1..Len(doc) : KeywordInSpan(doc[k], Alvo))

---------------------------------------------------------------------------
(* Document Fetcher: baixar_pdf / download_pdf, and the collaborators      *)

PdfSignature == <<"%", "P", "D", "F">>

\* Payloads a server returns: two documents, a file cut after its signature
\* and an error page.
PdfA == PdfSignature \o <<"A">>
PdfB == PdfSignature \o <<"B">>
PdfTruncated == PdfSignature
HtmlPage == <<"<", "h", "t", "m", "l">>

Payloads == {PdfA, PdfB, PdfTruncated, HtmlPage}

\* Content-Type headers: absent, a document, a markup page.
ContentTypes == {None, Some("application/pdf"), Some("Text/HTML; charset=UTF-8")}

\* A response with an error status carries the error page.
Responses ==
    [status : {200}, content_type : ContentTypes, content : Payloads]
    \cup {[status |-> 404, content_type |-> Some("Text/HTML; charset=UTF-8"),
           content |-> HtmlPage]}

\* (r.headers.get("Content-Type") or "").lower()
LowerContentType(h) ==
    IF h = None THEN ""
    ELSE IF Val(h) = "Text/HTML; charset=UTF-8" THEN "text/html; charset=utf-8"
    ELSE Val(h)

\* "text/html" in content_type
HasTextHtml(ct) == ct \in {"text/html", "text/html; charset=utf-8"}

\* r.content.startswith(b"%PDF")
StartsWithPdf(content) ==
    Len(content) >= Len(PdfSignature)
    /\ SubSeq(content, 1, Len(PdfSignature)) = PdfSignature

\* r.raise_for_status() raises for 4xx and 5xx.
StatusOk(r) == r.status < 400

\* The validation shared by baixar_pdf and download_pdf: the response is
\* returned only when no check raises.
Validated(r) ==
    /\ StatusOk(r)
    /\ ~HasTextHtml(LowerContentType(r.content_type))
    /\ StartsWithPdf(r.content)

\* Mutant of baixar_pdf: the file is written before the response is checked.
baixar_pdf_write_first(r, destino) ==
    [ok           |-> Validated(r),
     destino      |-> Some(r.content),
     content      |-> r.content,
     content_type |-> LowerContentType(r.content_type)]

\* baixar_pdf(url, destino): whether it returned, what destino holds
\* afterwards, and the (bytes, content type) it returns.
baixar_pdf(r, destino) ==
    [ok           |-> Validated(r),
     destino      |-> IF Validated(r) THEN Some(r.content) ELSE destino,
     content      |-> r.content,
     content_type |-> LowerContentType(r.content_type)]

\* download_pdf(session, url): the bytes, or None when it raises.
download_pdf(r) == IF Validated(r) THEN Some(r.content) ELSE None

\* hashlib.sha256(data).hexdigest(): one digest per byte string.
sha256_bytes(data) == <<"sha256">> \o data

\* The pages pdfplumber extracts from a document, by the byte after its
\* signature; None when the container cannot be opened.
PagesOf(content) ==
    IF ~StartsWithPdf(content) \/ Len(content) = Len(PdfSignature) THEN None
    ELSE IF content[5] = "A"
         THEN Some(<< <<"outro", "Nomear", "IV", "concurso publico",
                        "Procurador-Geral de Justica">> >>)
         ELSE Some(<< <<"outro">>, <<"outro">> >>)

\* ler_texto_pdf(destino): the joined text, or None when pdfplumber raises.
ler_texto_pdf(destino) ==
    IF destino = None \/ PagesOf(Val(destino)) = None THEN None
    ELSE Some(JoinPages(Val(PagesOf(Val(destino)))))

---------------------------------------------------------------------------
(* Change Tracker and main of script_diario_oficial.py                     *)

Host == <<"h", "t", "t", "p", "s", ":", "/", "/", "w", "w", "w", ".", "m",
          "p", "r", "r", ".", "m", "p", ".", "b", "r">>

\* link_pdf_completo
Completo(link_pdf) == IF link_pdf[1] = "/" THEN Host \o link_pdf ELSE link_pdf

\* The dict load_state returns when there is no state file.
EmptyState == [last_link |-> None, last_sha256 |-> None]

\* load_state(): the stored dict, {} when the file is absent.
load_state(file) == IF file = None THEN EmptyState ELSE Val(file)

\* Mutant of Updated: the fingerprint is not stored.
UpdatedLinkOnly(state, link, pdf_hash) ==
    [state EXCEPT !.last_link = Some(link)]

\* state["last_link"] = ...; state["last_sha256"] = ...
Updated(state, link, pdf_hash) ==
    [state EXCEPT !.last_link = Some(link), !.last_sha256 = Some(pdf_hash)]

\* save_state(state): what the state file holds afterwards.
save_state(state) == Some(state)

\* Mutant of SameLink: the stored link is compared with the href as found
\* on the page, before it is completed.
SameLinkAsFound(only_new, state, link_pdf, link_pdf_completo) ==
    only_new /\ state.last_link = Some(link_pdf)

\* SEND_ONLY_IF_NEW and last_link == link_pdf_completo
SameLink(only_new, state, link_pdf, link_pdf_completo) ==
    only_new /\ state.last_link = Some(link_pdf_completo)

\* Mutant of SameContent: the fingerprint is compared with the wrong key.
SameContentWrongKey(only_new, state, pdf_hash) ==
    only_new /\ state.last_link = Some(pdf_hash)

\* SEND_ONLY_IF_NEW and last_hash == pdf_hash
SameContent(only_new, state, pdf_hash) ==
    only_new /\ state.last_sha256 = Some(pdf_hash)

\* The message main composes: the clause found, the keyword remark and the
\* link (the edition in the subject is left out).
Message(m, link) ==
    [trecho |-> m.trecho, achou_concurso |-> m.achou_concurso, link |-> link]

\* A run of main that has not got to the download.
Run0 ==
    [link |-> None, resp |-> None, sha |-> None, decision |-> "none",
     mail |-> None, calls |-> <<"load_state">>, exit |-> 1]

\* Mutant of NotifyThenSave: the state is saved before the mail is sent.
SaveThenNotify(run, state, file, msg, mail_ok) ==
    [stored |-> save_state(Updated(state, Val(run.link), Val(run.sha))),
     run |-> IF mail_ok
             THEN [run EXCEPT !.mail = Some(msg), !.exit = 0,
                              !.calls = @ \o <<"save_state", "enviar_email">>]
             ELSE [run EXCEPT !.exit = 1,
                              !.calls = @ \o <<"save_state", "enviar_email">>]]

\* Lines 266-273: send, then update and save the state.  mail_ok is whether
\* enviar_email returns (credentials present, transport accepts).
NotifyThenSave(run, state, file, msg, mail_ok) ==
    IF mail_ok
    THEN [stored |-> save_state(Updated(state, Val(run.link), Val(run.sha))),
          run |-> [run EXCEPT !.mail = Some(msg), !.exit = 0,
                              !.calls = @ \o <<"enviar_email", "save_state">>]]
    ELSE [stored |-> file,
          run |-> [run EXCEPT !.exit = 1, !.calls = @ \o <<"enviar_email">>]]

\* Lines 226-229 and 242-245: update and save the state, send nothing.
SaveOnly(run, state, decision) ==
    [stored |-> save_state(Updated(state, Val(run.link), Val(run.sha))),
     run |-> [run EXCEPT !.decision = decision, !.exit = 0,
                         !.calls = @ \o <<"save_state">>]]

\* The links the listing page carries in the model: two dated site-relative
\* links and an absolute one without a date.
PortalLinks ==
    {Link(<<"/", "d">>, Some(<<"9">>), t) : t \in Stamps \ {None}}
    \cup {Host \o Link(<<"/", "e">>, None, None)}

PageLists == UNION {[1..n -> PortalLinks] : n \in 0..MaxLinks}

\* link_pdf = escolher_link_mais_recente(hrefs), for each list of the model.
\* (@@ <<>> leaves the function as it is and has TLC tabulate it once.)
LinkPdfOf ==
    [hs \in PageLists \ {<<>>} |-> escolher_link_mais_recente(hs)] @@ <<>>

\* main(): the outcome of one run, given the flags, the state file and the
\* local file it starts from, the hrefs of the page, the response to the
\* download and whether the mail goes out.
MainRun(flags, file, destino, hs, r, mail_ok) ==
    LET state == load_state(file)
    IN  IF hs = <<>>
        THEN [stored |-> file, arquivo |-> destino, run |-> Run0]
        ELSE
        LET link_pdf == LinkPdfOf[hs]
            link == Completo(link_pdf)
            run1 == [Run0 EXCEPT !.link = Some(link),
                        !.calls = @ \o <<"escolher_link_mais_recente">>]
        IN  IF SameLink(flags.only_new, state, link_pdf, link)
            THEN [stored |-> file, arquivo |-> destino,
                  run |-> [run1 EXCEPT !.decision = "Unchanged-Link",
                                       !.exit = 0]]
            ELSE
            LET got == baixar_pdf(r, destino)
                run2 == [run1 EXCEPT !.resp = Some(r),
                                     !.calls = @ \o <<"baixar_pdf">>]
            IN  IF ~got.ok
                THEN [stored |-> file, arquivo |-> got.destino, run |-> run2]
                ELSE
                LET pdf_hash == sha256_bytes(got.content)
                    run3 == [run2 EXCEPT !.sha = Some(pdf_hash),
                                         !.calls = @ \o <<"sha256_bytes">>]
                IN  IF SameContent(flags.only_new, state, pdf_hash)
                    THEN [arquivo |-> got.destino]
                         @@ SaveOnly(run3, state, "Unchanged-Content")
                    ELSE
                    LET texto == ler_texto_pdf(got.destino)
                        run4 == [run3 EXCEPT !.decision = "Changed",
                                    !.calls = @ \o <<"ler_texto_pdf">>]
                    IN  IF texto = None
                        THEN [stored |-> file, arquivo |-> got.destino,
                              run |-> run4]
                        ELSE
                        LET m == MainMatch(Val(texto))
                        IN  IF flags.only_match /\ ~m.tem_match
                            THEN [arquivo |-> got.destino]
                                 @@ SaveOnly(run4, state, "Changed")
                            ELSE [arquivo |-> got.destino]
                                 @@ NotifyThenSave(run4, state, file,
                                                   Message(m, link), mail_ok)

Flags == [only_new : BOOLEAN, only_match : BOOLEAN]

InitPipeline ==
    /\ config \in Flags
    /\ stored = None
    /\ arquivo = None
    /\ cur = None
    /\ RecencyIdle /\ NormIdle /\ ClauseIdle /\ ScanIdle

\* One scheduled run of script_diario_oficial.py, from start to exit.
Main ==
    /\ config # None
    /\ \E hs \in PageLists, r \in Responses, mail_ok \in BOOLEAN :
          LET out == MainRun(config, stored, arquivo, hs, r, mail_ok)
          IN  /\ stored' = out.stored
              /\ arquivo' = out.arquivo
              /\ cur' = Some(out.run)
    /\ UNCHANGED <<config, recencyVars, normVars, clauseVars, scanVars>>

NextPipeline == Main

SpecPipeline == InitPipeline /\ [][NextPipeline]_vars

---------------------------------------------------------------------------
(* Properties of the pipeline                                              *)

\* The state file holds exactly the link and the fingerprint of the run.
StoredIs(file, run) ==
    file = Some([last_link |-> run.link, last_sha256 |-> run.sha])

Called(run, name) == name \in Range(run.calls)

\* The run ended in enviar_email raising.
MailFailed(run) ==
    run.exit = 1 /\ run.calls[Len(run.calls)] = "enviar_email"

UnchangedLinkStep ==
    /\ Val(cur').decision = "Unchanged-Link"
    /\ ~Called(Val(cur'), "baixar_pdf")
    /\ Val(cur').mail = None
    /\ stored' = stored

\* C3, as stated: with SEND_ONLY_IF_NEW, a run that follows a run on the
\* same selected link reports Unchanged-Link.
C3_RerunAlwaysUnchangedLink ==
    [][(/\ cur # None /\ cur' # None /\ config.only_new
        /\ Val(cur).link # None /\ Val(cur').link = Val(cur).link)
          => UnchangedLinkStep]_vars

\* C3, amended: with SEND_ONLY_IF_NEW, a run that follows a run on the same
\* selected link that ended without an error reports Unchanged-Link: no
\* download, no notification, the state file untouched.
C3_RerunAfterSuccessUnchangedLink ==
    [][(/\ cur # None /\ cur' # None /\ config.only_new
        /\ Val(cur).link # None /\ Val(cur').link = Val(cur).link
        /\ Val(cur).exit = 0)
          => UnchangedLinkStep]_vars

C3_Witness ==
    cur # None /\ config.only_new /\ Val(cur).decision = "Unchanged-Link"

\* C4: with SEND_ONLY_IF_NEW, a run whose link differs from the stored link
\* and whose fingerprint equals the stored one reports Unchanged-Content:
\* enviar_email is not called and the state file ends as the new link with
\* the unchanged fingerprint.
C4_UnchangedContentSuppresses ==
    [][(/\ cur' # None /\ config.only_new /\ Val(cur').sha # None
        /\ load_state(stored).last_link # Val(cur').link
        /\ load_state(stored).last_sha256 = Val(cur').sha)
          => /\ Val(cur').decision = "Unchanged-Content"
             /\ ~Called(Val(cur'), "enviar_email")
             /\ Val(cur').mail = None
             /\ StoredIs(stored', Val(cur'))
             /\ Val(stored').last_sha256 = load_state(stored).last_sha256]_vars

C4_Witness ==
    /\ cur # None /\ Val(cur).decision = "Unchanged-Content"
    /\ Val(cur).exit = 0 /\ StoredIs(stored, Val(cur))

\* C8: a response is accepted only if its content type does not say
\* text/html and its payload begins with %PDF; a rejected response ends the
\* run with an error and leaves the local file, the state file and the
\* outbox alone; an accepted response leaves in the file exactly the bytes
\* that are fingerprinted.
C8_FetcherValidates ==
    [][(cur' # None /\ Val(cur').resp # None)
          => LET r == Val(Val(cur').resp)
                 accepted == Val(cur').sha # None
                 well_formed ==
                     /\ ~HasTextHtml(LowerContentType(r.content_type))
                     /\ SubSeq(r.content, 1, 4) = <<"%", "P", "D", "F">>
             IN  /\ accepted => well_formed
                 /\ ~well_formed => ~accepted
                 /\ ~accepted =>
                       /\ Val(cur').exit = 1
                       /\ arquivo' = arquivo
                       /\ stored' = stored
                       /\ Val(cur').mail = None
                 /\ accepted =>
                       /\ arquivo' = Some(r.content)
                       /\ Val(cur').sha = Some(sha256_bytes(r.content))]_vars

\* A 200 response with a PDF payload declared as text/html was rejected.
C8_Witness ==
    /\ cur # None /\ Val(cur).resp # None /\ Val(cur).sha = None
    /\ Val(Val(cur).resp).status = 200
    /\ Val(Val(cur).resp).content = PdfA
    /\ Val(cur).exit = 1

\* C10: in a run that attempts a notification, save_state is called only
\* after enviar_email has returned; if enviar_email fails the state file is
\* what it was when the run began, and the next run on the same document
\* attempts the notification again.
C10_SaveAfterDelivery ==
    [][cur' # None =>
          LET run == Val(cur')
          IN  /\ Called(run, "enviar_email") =>
                    \A i \in 1..Len(run.calls) :
                        run.calls[i] = "save_state" =>
                            /\ run.mail # None
                            /\ \E j \in 1..(i - 1) : run.calls[j] = "enviar_email"
              /\ MailFailed(run) => stored' = stored
              /\ (/\ cur # None /\ MailFailed(Val(cur))
                  /\ run.link = Val(cur).link /\ run.sha = Val(cur).sha)
                    => run.decision = "Changed" /\ Called(run, "enviar_email")]_vars

C10_Witness == cur # None /\ MailFailed(Val(cur))

---------------------------------------------------------------------------
(* main of scan_ultima_nomeacao.py                                         *)

MAX_YEARS == 20
MAX_PDFS_PER_YEAR == 120

\* The portal lists at most the MaxYears years up to 2024.
MaxYears == 2
\* The most documents a year's page links to.
MaxPdfs == 2

YearsUniverse == {2024 - k : k \in 0..(MaxYears - 1)}

\* The documents of the portal: a dated one with an edition number, a later
\* dated one, and one whose link carries neither.
ScanLinks ==
    {Host \o Link(<<"/", "d">>, Some(<<"9">>), Some(<<2024, 1, 1, 0, 0, 0>>)),
     Host \o Link(<<"/", "d">>, None, Some(<<2024, 6, 1, 0, 0, 0>>)),
     Host \o Link(<<"/", "d">>, None, None)}

\* What a download answers: a matching document, a document without the
\* clause, a file pdfplumber cannot open, an error page.
ScanResponses ==
    {[status |-> 200, content_type |-> Some("application/pdf"), content |-> PdfA],
     [status |-> 200, content_type |-> None, content |-> PdfB],
     [status |-> 200, content_type |-> Some("application/pdf"),
      content |-> PdfTruncated],
     [status |-> 200, content_type |-> Some("Text/HTML; charset=UTF-8"),
      content |-> HtmlPage]}

\* What the portal serves during one scan: the years of the listing (None
\* when the listing cannot be fetched), whether each year's page loads, the
\* links each page holds and the response to each download.
Sites ==
    [years   : {None} \cup {Some(Y) : Y \in SUBSET YearsUniverse},
     page_ok : [YearsUniverse -> BOOLEAN],
     urls    : [YearsUniverse ->
                   {U \in SUBSET ScanLinks : Cardinality(U) <= MaxPdfs}],
     resp    : [ScanLinks -> ScanResponses]]

RECURSIVE SetToSeq(_)
SetToSeq(S) ==
    IF S = {} THEN <<>>
    ELSE LET x == CHOOSE y \in S : TRUE IN <<x>> \o SetToSeq(S \ {x})

\* sorted(years, reverse=True) of extract_available_years
RECURSIVE YearsDesc(_)
YearsDesc(Y) ==
    IF Y = {} THEN <<>>
    ELSE LET m == CHOOSE y \in Y : \A z \in Y : z <= y
         IN  <<m>> \o YearsDesc(Y \ {m})

\* s[:n]
Prefix(s, n) == SubSeq(s, 1, IF Len(s) < n THEN Len(s) ELSE n)

\* The value extract_pdf_urls_from_html returns for a page holding the links
\* U: sorted(...) of the set.
extract_pdf_urls_from_html(U) ==
    LET l == SetToSeq(U) IN SortedBy(l, [k \in 1..Len(l) |-> Codes(l[k])])

\* The body of the try of main for one link: what found is, None when the
\* download or the extraction raises (caught, logged, next link) and when the
\* document does not match.
TryPdf(r) ==
    LET pdf_bytes == download_pdf(r)
    IN  IF pdf_bytes = None THEN None
        ELSE IF PagesOf(Val(pdf_bytes)) = None THEN None
        ELSE pdf_has_relevant_nomeacao(Val(PagesOf(Val(pdf_bytes))))

\* Whether the try of main raised for the link.
TryRaised(r) ==
    download_pdf(r) = None \/ PagesOf(Val(download_pdf(r))) = None

\* The inner loop of main: the links of one year in turn.
RECURSIVE ScanPdfs(_, _, _, _)
ScanPdfs(w, year, pdf_urls, out) ==
    IF pdf_urls = <<>> THEN out
    ELSE LET pdf_url == Head(pdf_urls)
             found == TryPdf(w.resp[pdf_url])
             seen == [out EXCEPT
                         !.tried = Append(@, pdf_url),
                         !.warnings = IF TryRaised(w.resp[pdf_url])
                                      THEN Append(@, pdf_url) ELSE @]
         IN  IF found # None
             THEN [seen EXCEPT !.exit = 0,
                               !.found = Some([year |-> year, pdf |-> pdf_url,
                                               page |-> Val(found).page])]
             ELSE ScanPdfs(w, year, Tail(pdf_urls), seen)

\* The outer loop of main: the years in turn; exit 2 when they are used up.
RECURSIVE ScanYears(_, _, _)
ScanYears(w, years, out) ==
    IF years = <<>> THEN [out EXCEPT !.exit = 2]
    ELSE LET year == Head(years)
         IN  IF ~w.page_ok[year] THEN [out EXCEPT !.exit = 1]
             ELSE LET pdf_urls == sort_pdfs_desc(
                                      extract_pdf_urls_from_html(w.urls[year]))
                      res == ScanPdfs(w, year,
                                      Prefix(pdf_urls, MAX_PDFS_PER_YEAR), out)
                  IN  IF res.found # None THEN res
                      ELSE ScanYears(w, Tail(years), res)

ScanStart == [exit |-> 1, found |-> None, tried |-> <<>>, warnings |-> <<>>]

\* main() and the exit code of the script: 0 found, 2 found nothing, 1 fatal.
ScanRun(w) ==
    IF w.years = None \/ Val(w.years) = {} THEN ScanStart
    ELSE ScanYears(w, Prefix(YearsDesc(Val(w.years)), MAX_YEARS), ScanStart)

InitScan ==
    /\ site = None
    /\ scan = None
    /\ RecencyIdle /\ NormIdle /\ ClauseIdle /\ PipelineIdle

\* One run of scan_ultima_nomeacao.py against what the portal serves.
Scan ==
    /\ scan = None
    /\ \E w \in Sites :
          /\ site' = Some(w)
          /\ scan' = Some(ScanRun(w))
    /\ UNCHANGED <<recencyVars, normVars, clauseVars, pipelineVars>>

NextScan == Scan

SpecScan == InitScan /\ [][NextScan]_vars

\* Most recent first, by the order of the Recency Resolver.
RECURSIVE MostRecentFirst(_)
MostRecentFirst(U) ==
    IF U = {} THEN <<>>
    ELSE <<MostRecent(U)>> \o MostRecentFirst(U \ {MostRecent(U)})

RECURSIVE CandidatesFrom(_, _)
CandidatesFrom(w, years) ==
    IF years = <<>> THEN <<>>
    ELSE LET us == MostRecentFirst(w.urls[Head(years)])
         IN  [k \in 1..Len(us) |-> [year |-> Head(years), pdf |-> us[k]]]
             \o CandidatesFrom(w, Tail(years))

\* The candidates of a scan in the order of the claim: years descending,
\* most recent first within a year.
Candidates(w) == CandidatesFrom(w, YearsDesc(Val(w.years)))

\* The listing and every listed year's page load.
NothingFatal(w) ==
    /\ w.years # None /\ Val(w.years) # {}
    /\ \A y \in Val(w.years) : w.page_ok[y]

\* C9: a failing document is skipped; the scan's result is the first
\* candidate, years descending and most recent first within a year, that is
\* fetched and matches, and it ends as "found nothing" (exit 2) exactly when
\* no candidate does.
C9_ScanFindsFirstMatch ==
    (scan # None /\ NothingFatal(Val(site))) =>
        LET w == Val(site)
            cs == Candidates(w)
            hits == {k \in 1..Len(cs) : TryPdf(w.resp[cs[k].pdf]) # None}
        IN  IF hits = {} THEN Val(scan).exit = 2 /\ Val(scan).found = None
            ELSE /\ Val(scan).exit = 0
                 /\ Val(Val(scan).found).year = cs[Min(hits)].year
                 /\ Val(Val(scan).found).pdf = cs[Min(hits)].pdf

\* The same with the candidates of a year taken in the order sort_pdfs_desc
\* gives them: what the loop of main does with failures and exit codes.
ScanFindsFirstMatchInListOrder ==
    (scan # None /\ NothingFatal(Val(site))) =>
        LET w == Val(site)
            hit(u) == TryPdf(w.resp[u]) # None
            ys == {y \in Val(w.years) : \E u \in w.urls[y] : hit(u)}
        IN  IF ys = {} THEN Val(scan).exit = 2 /\ Val(scan).found = None
            ELSE LET y == CHOOSE z \in ys : \A t \in ys : t <= z
                     l == sort_pdfs_desc(extract_pdf_urls_from_html(w.urls[y]))
                 IN  /\ Val(scan).exit = 0
                     /\ Val(Val(scan).found).year = y
                     /\ Val(Val(scan).found).pdf
                            = l[Min({k \in 1..Len(l) : hit(l[k])})]

=============================================================================
